---- MODULE Spec2Model ----
(***************************************************************************)
(* A model of google_voice_dialer.py: the registration of the tel: and     *)
(* callto: protocol handler in the per-user registry (register_handler,    *)
(* unregister_handler) and the dial dispatch (dial, with the discovery     *)
(* helpers it calls).                                                      *)
(*                                                                         *)
(* The registry is a function from key paths (sequences of key names       *)
(* below HKEY_CURRENT_USER) to the key's values (a function from value     *)
(* names to string data).  The unnamed default value of a key, which the   *)
(* code addresses with None, has the name DefaultValue.                    *)
(***************************************************************************)
EXTENDS Integers, Sequences, FiniteSets, TLC

VARIABLES
    reg,        \* the HKEY_CURRENT_USER hive: key path -> (value name -> data)
    out,        \* what the last registry operation printed
    lastOp,     \* the last registry operation, its inputs and its faults
    env,        \* the process environment: sys.frozen, pythonw.exe exists
    faults,     \* the store faults injected so far
    host,       \* what discovery finds on this machine (App Paths, PATH, shortcut)
    log,        \* the lines of the log file
    phone_url,  \* the argument of dial
    phone,      \* the normalized number
    found,      \* the results of discovery: proxy_path, chrome_path, app_id
    launch,     \* the launch dial attempted
    dialPc,     \* where dial is: idle, waiting (in subprocess.run), done, raised
    child,      \* the launched process: none, running, exited
    events,     \* the side effects of dial, in order
    frames,     \* the call stack of delete_key_recursive
    unregPc,    \* where unregister_handler is
    denied,     \* the store calls the store refuses in this run of it
    issued,     \* the last DeleteKey call issued to the store
    file,       \* the characters of the log file concurrent dials append to
    procs,      \* the concurrent dial processes: position, file offset, line
    argv,       \* the parsed command line of one invocation of main
    ran,        \* the operations main has run in this invocation
    appdir      \* the per-user application directory exists

regVars == <<reg, out, lastOp, env, faults>>

dialVars == <<host, log, phone_url, phone, found, launch, dialPc, child, events>>

stepVars == <<frames, unregPc, denied, issued>>

logVars == <<file, procs>>

mainVars == <<argv, ran, appdir>>

vars == <<reg, out, lastOp, env, faults,
          host, log, phone_url, phone, found, launch, dialPc, child, events,
          frames, unregPc, denied, issued, file, procs, argv, ran, appdir>>

-----------------------------------------------------------------------------
(* Bounds of the model. *)

\* The most store faults injected into one behaviour.
MaxFaults == 1

\* The longest text after the scheme in the enumerated dial inputs.
MaxBody == 3

\* The number of dial processes that run at the same time.
MaxDialers == 2

-----------------------------------------------------------------------------
(* Program constants. *)

PROG_ID == "Google Voice Dialer"

PROG_NAME == PROG_ID

PROG_DESC == "Google Voice tel: protocol handler. Dial phone numbers using Google Voice."

DefaultValue == "(Default)"

\* rf"Software\Classes\{PROG_ID}"
ClassesPath == <<"Software", "Classes", PROG_ID>>

IconPath == ClassesPath \o <<"DefaultIcon">>

\* r"shell\open\command" below the class entry
CommandPath == ClassesPath \o <<"shell", "open", "command">>

\* rf"Software\{prog_id}", the root unregister_handler deletes
ProgRootPath == <<"Software", PROG_ID>>

\* rf"Software\{PROG_ID}\Capabilities"
CapPath == ProgRootPath \o <<"Capabilities">>

CapPathString == "Software\\" \o PROG_ID \o "\\Capabilities"

UrlAssocPath == CapPath \o <<"URLAssociations">>

RegAppsPath == <<"Software", "RegisteredApplications">>

-----------------------------------------------------------------------------
(* The environment register_handler reads: the path it was given, whether  *)
(* the process is a frozen executable, and whether pythonw.exe exists.     *)

NoPath == ""

TargetExe == "%APPDATA%\\Google Voice Dialer\\Google Voice Dialer.exe"

FrozenExe == "C:\\Tools\\Google Voice Dialer.exe"

PythonExe == "C:\\Python\\python.exe"

PythonwExe == "C:\\Python\\pythonw.exe"

ScriptPath == "C:\\src\\google_voice_dialer.py"

\* sys.executable: the frozen program itself, or the interpreter
SysExecutable(frozen) == IF frozen THEN FrozenExe ELSE PythonExe

RunningPath(exe_path, frozen) ==
    IF exe_path # NoPath THEN exe_path
    ELSE IF frozen THEN SysExecutable(frozen)
    ELSE ScriptPath

Runner(exe_path, frozen, pythonwExists) ==
    IF exe_path # NoPath THEN ""
    ELSE IF frozen THEN ""
    ELSE IF pythonwExists THEN "\"" \o PythonwExe \o "\" "
    ELSE "\"" \o SysExecutable(frozen) \o "\" "

-----------------------------------------------------------------------------
(* The registry store. *)

NoValues == [n \in {} |-> ""]

Prefixes(path) == {SubSeq(path, 1, i) : i \in 1..Len(path)}

IsPrefix(p, q) == Len(p) <= Len(q) /\ SubSeq(q, 1, Len(p)) = p

Children(r, path) ==
    {k \in DOMAIN r : Len(k) = Len(path) + 1 /\ IsPrefix(path, k)}

Subtree(r, path) == {k \in DOMAIN r : IsPrefix(path, k)}

\* A CreateKeyEx that fails on a key that exists, as a create-if-missing
\* call would.
CreateKeyExStrict(r, path) ==
    IF path \in DOMAIN r THEN [reg |-> r, exc |-> "FileExistsError"]
    ELSE [reg |-> [k \in DOMAIN r \cup Prefixes(path) |->
                      IF k \in DOMAIN r THEN r[k] ELSE NoValues],
          exc |-> "none"]

\* winreg.CreateKeyEx: opens the key, creating it and its missing ancestors;
\* an existing key keeps its values.
CreateKeyEx(r, path) ==
    [reg |-> [k \in DOMAIN r \cup Prefixes(path) |->
                 IF k \in DOMAIN r THEN r[k] ELSE NoValues],
     exc |-> "none"]

\* A SetValueEx that keeps the data of a value that exists.
SetValueExIfMissing(r, path, name, data) ==
    [reg |-> [r EXCEPT ![path] = @ @@ (name :> data)],
     exc |-> "none"]

\* winreg.SetValueEx on the open key: creates or overwrites the named value.
SetValueEx(r, path, name, data) ==
    [reg |-> [r EXCEPT ![path] = (name :> data) @@ @],
     exc |-> "none"]

-----------------------------------------------------------------------------
(* register_handler *)

SetOp(path, name, data) == [op |-> "set", path |-> path, name |-> name, data |-> data]

CreateOp(path) == [op |-> "create", path |-> path, name |-> "", data |-> ""]

\* The store calls of register_handler, in program order.
RegisterOps(running_path, runner) ==
    << CreateOp(ClassesPath),
       SetOp(ClassesPath, DefaultValue, "URL:" \o PROG_NAME),
       SetOp(ClassesPath, "URL Protocol", ""),
       CreateOp(IconPath),
       SetOp(IconPath, DefaultValue, running_path \o ",0"),
       CreateOp(CommandPath),
       SetOp(CommandPath, DefaultValue,
             runner \o "\"" \o running_path \o "\" \"%1\""),
       CreateOp(CapPath),
       SetOp(CapPath, "ApplicationName", PROG_NAME),
       SetOp(CapPath, "ApplicationDescription", PROG_DESC),
       SetOp(CapPath, "ApplicationIcon", running_path \o ",0"),
       CreateOp(UrlAssocPath),
       SetOp(UrlAssocPath, "tel", PROG_ID),
       SetOp(UrlAssocPath, "callto", PROG_ID),
       CreateOp(RegAppsPath),
       SetOp(RegAppsPath, PROG_NAME, CapPathString) >>

NumRegisterOps == Len(RegisterOps(NoPath, ""))

ApplyOp(r, o) ==
    IF o.op = "create" THEN CreateKeyEx(r, o.path)
    ELSE SetValueEx(r, o.path, o.name, o.data)

\* A store fault of register_handler: its fault.at-th store call raises
\* fault.kind (at = 0: no call fails).
NoFault == [at |-> 0, kind |-> "none"]

RegisterFaults ==
    {NoFault} \cup
    [at : 1..NumRegisterOps, kind : {"PermissionError", "OSError"}]

\* A try block that undoes its writes when a store call raises.
RECURSIVE RunOpsRollback(_, _, _, _)
RunOpsRollback(r, ops, i, fault) ==
    IF fault.at \in i..Len(ops) THEN [reg |-> r, exc |-> fault.kind]
    ELSE IF i > Len(ops) THEN [reg |-> r, exc |-> "none"]
    ELSE RunOpsRollback(ApplyOp(r, ops[i]).reg, ops, i + 1, fault)

\* The body of register_handler's try block from store call i on: the first
\* call that raises ends it, and the writes made before it stay.
RECURSIVE RunOps(_, _, _, _)
RunOps(r, ops, i, fault) ==
    IF i > Len(ops) THEN [reg |-> r, exc |-> "none"]
    ELSE IF fault.at = i THEN [reg |-> r, exc |-> fault.kind]
    ELSE LET res == ApplyOp(r, ops[i])
         IN  IF res.exc # "none" THEN res
             ELSE RunOps(res.reg, ops, i + 1, fault)

\* What register_handler prints: the success message, or one of its two
\* except clauses.
RegisterReport(exc) ==
    IF exc = "none" THEN "registered"
    ELSE IF exc = "PermissionError" THEN "permission denied"
    ELSE "error registering"

register_handler(r, exe_path, frozen, pythonwExists, fault) ==
    LET running_path == RunningPath(exe_path, frozen)
        runner == Runner(exe_path, frozen, pythonwExists)
        res == RunOps(r, RegisterOps(running_path, runner), 1, fault)
    IN  [reg |-> res.reg, out |-> RegisterReport(res.exc),
         args |-> <<running_path, runner>>]

-----------------------------------------------------------------------------
(* unregister_handler *)

\* The order in which EnumKey lists subkeys: the registry keeps them sorted
\* by name, case-insensitively.
SortedNames ==
    <<"Capabilities", "command", "DefaultIcon", "open", "shell", "URLAssociations">>

NameRank(name) ==
    IF \E i \in 1..Len(SortedNames) : SortedNames[i] = name
    THEN CHOOSE i \in 1..Len(SortedNames) : SortedNames[i] = name
    ELSE Len(SortedNames) + 1

\* winreg.EnumKey(key, 0)
FirstChild(r, path) ==
    CHOOSE c \in Children(r, path) :
        \A d \in Children(r, path) : NameRank(c[Len(c)]) <= NameRank(d[Len(d)])

\* winreg.DeleteKey: FileNotFoundError for a key that does not exist; the
\* store refuses to delete a key that has subkeys, or one the fault set F
\* denies, with PermissionError.
DeleteKey(r, path, F) ==
    IF path \notin DOMAIN r THEN [reg |-> r, exc |-> "FileNotFoundError"]
    ELSE IF Children(r, path) # {} \/ <<"delete", path>> \in F
         THEN [reg |-> r, exc |-> "PermissionError"]
    ELSE [reg |-> [k \in DOMAIN r \ {path} |-> r[k]], exc |-> "none"]

\* A delete of the key that catches nothing.
DeleteSelfStrict(r, path, F) == DeleteKey(r, path, F)

\* A delete of the key that catches every error of the store.
DeleteSelfLenient(r, path, F) ==
    [reg |-> DeleteKey(r, path, F).reg, exc |-> "none"]

\* The second try of delete_key_recursive: only FileNotFoundError is caught.
DeleteSelf(r, path, F) ==
    LET res == DeleteKey(r, path, F)
    IN  IF res.exc = "FileNotFoundError" THEN [reg |-> res.reg, exc |-> "none"]
        ELSE res

\* winreg.OpenKey(root, path, 0, KEY_ALL_ACCESS) succeeds
CanOpen(r, path, F) == path \in DOMAIN r /\ <<"open", path>> \notin F

\* A delete that does not go through the subkeys first.
delete_key_flat(r, path, F) == DeleteSelf(r, path, F)

RECURSIVE delete_key_recursive(_, _, _)
RECURSIVE DeleteChildren(_, _, _)
\* The while True loop: it ends when EnumKey raises OSError (no subkey is
\* left) or when the deletion of a subkey raises, which the enclosing
\* except OSError swallows as well (PermissionError is an OSError).
DeleteChildren(r, path, F) ==
    IF Children(r, path) = {} THEN r
    ELSE LET res == delete_key_recursive(r, FirstChild(r, path), F)
         IN  IF res.exc # "none" THEN res.reg
             ELSE DeleteChildren(res.reg, path, F)

delete_key_recursive(r, path, F) ==
    LET r1 == IF CanOpen(r, path, F) THEN DeleteChildren(r, path, F) ELSE r
    IN  DeleteSelf(r1, path, F)

\* A removal of the pointer that empties the RegisteredApplications key.
RemovePointerAll(r, prog_name, F) ==
    IF ~CanOpen(r, RegAppsPath, F) THEN r
    ELSE [r EXCEPT ![RegAppsPath] = NoValues]

\* DeleteValue on the RegisteredApplications key; a FileNotFoundError is
\* caught next to the call, any other OSError by the enclosing try.
RemovePointer(r, prog_name, F) ==
    IF ~CanOpen(r, RegAppsPath, F) THEN r
    ELSE IF prog_name \notin DOMAIN r[RegAppsPath] THEN r
    ELSE IF <<"deleteValue", RegAppsPath>> \in F THEN r
    ELSE [r EXCEPT ![RegAppsPath] =
              [n \in DOMAIN @ \ {prog_name} |-> @[n]]]

UnregisterReport(exc) ==
    IF exc = "none" THEN "unregistered"
    ELSE IF exc = "PermissionError" THEN "permission denied"
    ELSE "error unregistering"

unregister_handler(r, prog_id, prog_name, F) ==
    LET d1 == delete_key_recursive(r, <<"Software", "Classes", prog_id>>, F)
        d2 == delete_key_recursive(d1.reg, <<"Software", prog_id>>, F)
    IN  IF d1.exc # "none"
        THEN [reg |-> d1.reg, out |-> UnregisterReport(d1.exc)]
        ELSE IF d2.exc # "none"
        THEN [reg |-> d2.reg, out |-> UnregisterReport(d2.exc)]
        ELSE [reg |-> RemovePointer(d2.reg, prog_name, F),
              out |-> UnregisterReport("none")]

\* The keys unregister_handler opens or deletes, and the faults one run of
\* it can meet: any of these store calls may be refused.
ProgramKeys ==
    (Prefixes(CommandPath) \cup Prefixes(IconPath) \cup Prefixes(UrlAssocPath))
        \ {<<"Software">>, <<"Software", "Classes">>}

FaultPoints ==
    ({"open", "delete"} \X ProgramKeys)
        \cup {<<"open", RegAppsPath>>, <<"deleteValue", RegAppsPath>>}

RECURSIVE SubsetsUpTo(_, _)
SubsetsUpTo(S, n) ==
    IF n = 0 THEN {{}}
    ELSE LET smaller == SubsetsUpTo(S, n - 1)
         IN  smaller \cup {T \cup {x} : T \in smaller, x \in S}

UnregisterFaults(n) == SubsetsUpTo(FaultPoints, n)

-----------------------------------------------------------------------------
(* The states of the association store. *)

\* This program's records.
HasClass(r) == ClassesPath \in DOMAIN r

HasCapabilities(r) == ProgRootPath \in DOMAIN r

HasPointer(r) ==
    RegAppsPath \in DOMAIN r /\ PROG_NAME \in DOMAIN r[RegAppsPath]

FullyAbsent(r) == ~HasClass(r) /\ ~HasCapabilities(r) /\ ~HasPointer(r)

HasValue(r, path, name, data) ==
    path \in DOMAIN r /\ name \in DOMAIN r[path] /\ r[path][name] = data

FullyPresent(r, running_path, runner) ==
    /\ HasValue(r, ClassesPath, DefaultValue, "URL:" \o PROG_NAME)
    /\ HasValue(r, ClassesPath, "URL Protocol", "")
    /\ HasValue(r, IconPath, DefaultValue, running_path \o ",0")
    /\ HasValue(r, CommandPath, DefaultValue,
                runner \o "\"" \o running_path \o "\" \"%1\"")
    /\ HasValue(r, CapPath, "ApplicationName", PROG_NAME)
    /\ HasValue(r, CapPath, "ApplicationDescription", PROG_DESC)
    /\ HasValue(r, CapPath, "ApplicationIcon", running_path \o ",0")
    /\ HasValue(r, UrlAssocPath, "tel", PROG_ID)
    /\ HasValue(r, UrlAssocPath, "callto", PROG_ID)
    /\ HasValue(r, RegAppsPath, PROG_NAME, CapPathString)

\* The hive before the program ran: the keys Windows provides and another
\* application's records.
OtherApp == "Other App"

BaseStore ==
    (<<"Software">> :> NoValues)
    @@ (<<"Software", "Classes">> :> NoValues)
    @@ (<<"Software", "Classes", OtherApp>> :> (DefaultValue :> "URL:other"))
    @@ (<<"Software", OtherApp>> :> NoValues)

OtherPointer == OtherApp :> "Software\\Other App\\Capabilities"

\* The store calls of register_handler from the from-th to the to-th.
Slice(ops, from, to) == SubSeq(ops, from, to)

InitStore(hasClass, hasCap, regApps) ==
    LET ops == RegisterOps(TargetExe, "")
        r1 == IF hasClass
              THEN RunOps(BaseStore, Slice(ops, 1, 7), 1, NoFault).reg
              ELSE BaseStore
        r2 == IF hasCap
              THEN RunOps(r1, Slice(ops, 8, 14), 1, NoFault).reg
              ELSE r1
        r3 == IF regApps = "absent" THEN r2
              ELSE (RegAppsPath :> OtherPointer) @@ r2
    IN  IF regApps = "pointer"
        THEN RunOps(r3, Slice(ops, 15, 16), 1, NoFault).reg
        ELSE r3

-----------------------------------------------------------------------------
(* Text.  A string the program works on character by character is a        *)
(* sequence of characters; a character is a one-letter string, or the name *)
(* of a code point that has no letter here.                                *)

\* U+0663 ARABIC-INDIC DIGIT THREE: a decimal digit to \d and \D, which are
\* Unicode-aware for str patterns.
ArabicThree == "U+0663"

AsciiDigits == {"0", "1", "2", "3", "4", "5", "6", "7", "8", "9"}

\* what \d matches
IsDigit(c) == c \in AsciiDigits \cup {ArabicThree}

\* what str.strip() removes
IsSpace(c) == c \in {" ", "\t", "\n"}

\* str.lower(), and the case folding of re.IGNORECASE, on one character
LowerChar(c) ==
    CASE c = "T" -> "t" [] c = "E" -> "e" [] c = "L" -> "l"
      [] c = "C" -> "c" [] c = "A" -> "a" [] c = "O" -> "o"
      [] c = "B" -> "b" [] c = "H" -> "h" [] c = "P" -> "p"
      [] OTHER -> c

Lower(str) == [i \in 1..Len(str) |-> LowerChar(str[i])]

StartsWith(str, prefix) ==
    Len(prefix) <= Len(str) /\ SubSeq(str, 1, Len(prefix)) = prefix

Drop(str, n) == SubSeq(str, n + 1, Len(str))

TelScheme == <<"t", "e", "l", ":">>

CalltoScheme == <<"c", "a", "l", "l", "t", "o", ":">>

\* the guard of dial
Accepted(url) ==
    StartsWith(Lower(url), TelScheme) \/ StartsWith(Lower(url), CalltoScheme)

\* re.sub(r"^(tel|callto):", "", phone_url, flags=re.IGNORECASE)
StripScheme(url) ==
    IF StartsWith(Lower(url), TelScheme) THEN Drop(url, Len(TelScheme))
    ELSE IF StartsWith(Lower(url), CalltoScheme) THEN Drop(url, Len(CalltoScheme))
    ELSE url

RECURSIVE LStrip(_)
LStrip(str) ==
    IF str # <<>> /\ IsSpace(Head(str)) THEN LStrip(Tail(str)) ELSE str

RECURSIVE RStrip(_)
RStrip(str) ==
    IF str # <<>> /\ IsSpace(str[Len(str)])
    THEN RStrip(SubSeq(str, 1, Len(str) - 1))
    ELSE str

\* str.strip()
Strip(str) == RStrip(LStrip(str))

HexDigits == AsciiDigits \cup {"A", "B", "C", "D", "E", "F", "a", "b", "c", "d", "e", "f"}

UpperHex(c) ==
    CASE c = "a" -> "A" [] c = "b" -> "B" [] c = "c" -> "C"
      [] c = "d" -> "D" [] c = "e" -> "E" [] c = "f" -> "F"
      [] OTHER -> c

\* The character a %XX escape stands for: the printable ASCII characters
\* the dial inputs use; a byte from 80 on, alone, is no UTF-8 and decodes
\* to U+FFFD; any other byte is named by its code.
DecodeByte(hi, lo) ==
    LET h == UpperHex(hi)
        l == UpperHex(lo)
    IN  CASE h = "2" /\ l = "0" -> " "
          [] h = "2" /\ l = "3" -> "#"
          [] h = "2" /\ l = "5" -> "%"
          [] h = "2" /\ l = "B" -> "+"
          [] h = "2" /\ l = "C" -> ","
          [] h = "2" /\ l = "D" -> "-"
          [] h = "3" /\ l \in AsciiDigits -> l
          [] h \in {"8", "9", "A", "B", "C", "D", "E", "F"} -> "U+FFFD"
          [] OTHER -> "0x" \o h \o l

\* urllib.parse.unquote: every % followed by two hex digits is replaced by
\* the character it encodes; any other % stays.
RECURSIVE Unquote(_)
Unquote(str) ==
    IF str = <<>> THEN <<>>
    ELSE IF /\ Head(str) = "%"
            /\ Len(str) >= 3
            /\ str[2] \in HexDigits
            /\ str[3] \in HexDigits
         THEN <<DecodeByte(str[2], str[3])>> \o Unquote(Drop(str, 3))
    ELSE <<Head(str)>> \o Unquote(Tail(str))

\* A digit filter that lets every "+" through, as r"[^\d+]" would.
RECURSIVE DigitsAndPlus(_)
DigitsAndPlus(str) ==
    IF str = <<>> THEN <<>>
    ELSE IF IsDigit(Head(str)) \/ Head(str) = "+"
         THEN <<Head(str)>> \o DigitsAndPlus(Tail(str))
    ELSE DigitsAndPlus(Tail(str))

\* re.sub(r"\D", "", phone)
RECURSIVE Digits(_)
Digits(str) ==
    IF str = <<>> THEN <<>>
    ELSE IF IsDigit(Head(str)) THEN <<Head(str)>> \o Digits(Tail(str))
    ELSE Digits(Tail(str))

\* The text dial cleans: the scheme removed, stripped, percent-decoded.
Decoded(url) == Unquote(Strip(StripScheme(url)))

\* "+" if phone.startswith("+") else ""
Plus(str) == IF StartsWith(str, <<"+">>) THEN <<"+">> ELSE <<>>

\* The normalization of dial.
Normalize(url) == Plus(Decoded(url)) \o Digits(Decoded(url))

\* urllib.parse.quote on a normalized number: ASCII digits stay, "+" and
\* the UTF-8 bytes of any other digit are escaped.
QuoteChar(c) ==
    IF c \in AsciiDigits THEN <<c>>
    ELSE IF c = "+" THEN <<"%", "2", "B">>
    ELSE IF c = ArabicThree THEN <<"%", "D", "9", "%", "A", "3">>
    ELSE <<"%", "?", "?">>

RECURSIVE Quote(_)
Quote(str) ==
    IF str = <<>> THEN <<>> ELSE QuoteChar(Head(str)) \o Quote(Tail(str))

\* f"https://voice.google.com/u/0/calls?a=nc,{encoded_phone}"
GvUrl(number) == <<"https://voice.google.com/u/0/calls?a=nc,">> \o Quote(number)

-----------------------------------------------------------------------------
(* Discovery.  A path is the sequence of its components; None and the      *)
(* empty string, both false to `if`, are the empty sequence.               *)

None == <<>>

UserChrome == <<"C:", "Users", "me", "Chrome", "chrome.exe">>

MachineChrome == <<"C:", "Program Files", "Chrome", "chrome.exe">>

PathChrome == <<"D:", "bin", "chrome.exe">>

PathProxy == <<"D:", "bin", "chrome_proxy.exe">>

AppId == <<"--app-id value (32 lowercase letters)">>

\* chrome_exe_path.replace("chrome.exe", "chrome_proxy.exe"), on the
\* components that are the file name
ProxyCandidate(path) ==
    [i \in 1..Len(path) |->
        IF path[i] = "chrome.exe" THEN "chrome_proxy.exe" ELSE path[i]]

\* What one App Paths registration gives: the query raises OSError, or it
\* names a file that does not exist, or chrome.exe alone, or chrome.exe with
\* chrome_proxy.exe next to it.
RegProbes == {"OSError", "no file", "chrome", "chrome and proxy"}

\* One pass of the loop over (HKCU, HKLM): [hit, proxy_path, chrome_path]
ProbeRoot(probe, chrome_exe_path) ==
    IF probe \in {"OSError", "no file"}
    THEN [hit |-> FALSE, proxy_path |-> None, chrome_path |-> None]
    ELSE [hit |-> TRUE,
          proxy_path |-> IF probe = "chrome and proxy"
                         THEN ProxyCandidate(chrome_exe_path) ELSE None,
          chrome_path |-> chrome_exe_path]

\* A discovery that asks the system-wide registration first.
get_chrome_paths_MachineFirst(h) ==
    LET user == ProbeRoot(h.hkcu, UserChrome)
        machine == ProbeRoot(h.hklm, MachineChrome)
        reg_hit == IF machine.hit THEN machine ELSE user
        proxy_path == IF reg_hit.proxy_path # None THEN reg_hit.proxy_path
                      ELSE IF h.whichProxy THEN PathProxy ELSE None
        chrome_path == IF reg_hit.chrome_path # None THEN reg_hit.chrome_path
                       ELSE IF h.whichChrome THEN PathChrome ELSE None
    IN  [proxy_path |-> proxy_path, chrome_path |-> chrome_path]

get_chrome_paths(h) ==
    LET user == ProbeRoot(h.hkcu, UserChrome)
        machine == ProbeRoot(h.hklm, MachineChrome)
        reg_hit == IF user.hit THEN user ELSE machine
        proxy_path == IF reg_hit.proxy_path # None THEN reg_hit.proxy_path
                      ELSE IF h.whichProxy THEN PathProxy ELSE None
        chrome_path == IF reg_hit.chrome_path # None THEN reg_hit.chrome_path
                       ELSE IF h.whichChrome THEN PathChrome ELSE None
    IN  [proxy_path |-> proxy_path, chrome_path |-> chrome_path]

\* What the shortcut lookup meets.
ShortcutProbes ==
    {"no pywin32", "no shortcut", "no arguments", "no match", "match", "exception"}

get_google_voice_app_id(h) == IF h.shortcut = "match" THEN AppId ELSE None

Hosts ==
    [hkcu : RegProbes, hklm : RegProbes, whichProxy : BOOLEAN,
     whichChrome : BOOLEAN, shortcut : ShortcutProbes]

-----------------------------------------------------------------------------
(* dial *)

NoLaunch ==
    [tier |-> "none", argv |-> <<>>, started |-> FALSE, attempts |-> <<>>]

\* f"{datetime.datetime.now()} - {phone}\n"
LogLine(stamp, number) == <<stamp, " ", "-", " ">> \o number \o <<"\n">>

\* An append that opens the file for writing, as mode "w" would.
AppendLogTruncating(lines, stamp, number, logOk) ==
    IF logOk THEN <<LogLine(stamp, number)>> ELSE lines

\* The try block around the log append: a failure to open or write the
\* file is swallowed and changes nothing.
AppendLog(lines, stamp, number, logOk) ==
    IF logOk THEN Append(lines, LogLine(stamp, number)) ELSE lines

\* A choice that prefers the browser to the launcher.
ChooseTierBrowserFirst(proxy_path, app_id, chrome_path) ==
    IF chrome_path # None THEN "browser"
    ELSE IF proxy_path # None /\ app_id # None THEN "app"
    ELSE "default"

\* The branch dial takes on the results of discovery.
ChooseTier(proxy_path, app_id, chrome_path) ==
    IF proxy_path # None /\ app_id # None THEN "app"
    ELSE IF chrome_path # None THEN "browser"
    ELSE "default"

LaunchArgv(tier, proxy_path, app_id, chrome_path, gv_url) ==
    CASE tier = "app" ->
            << proxy_path, <<"--app-id=">> \o app_id,
               <<"--app-launch-url-for-shortcuts-menu-item=">> \o gv_url >>
      [] tier = "browser" -> << chrome_path, <<"--app=">> \o gv_url >>
      [] OTHER -> << gv_url >>

\* Launches that go on to the next branch when a process cannot be started.
LaunchAttemptsFallBack(tier, launchOk) ==
    IF launchOk \/ tier = "default" THEN <<tier>>
    ELSE IF tier = "app" THEN <<"app", "browser">>
    ELSE <<"browser", "default">>

\* The launches dial makes: the one call in the branch of its if / elif /
\* else that the results of discovery select.  An exception of that call
\* leaves dial, so no other branch runs after it.
LaunchAttempts(tier, launchOk) == <<tier>>

\* How the launch ends for dial: webbrowser.open returns at once;
\* subprocess.run raises OSError when the process cannot be started (check=False
\* only ignores the exit status) and otherwise returns when the process ends.
AfterLaunch(tier, launchOk) ==
    IF tier = "default" THEN [pc |-> "done", child |-> "none"]
    ELSE IF ~launchOk THEN [pc |-> "raised", child |-> "none"]
    ELSE [pc |-> "waiting", child |-> "running"]

\* dial, after its guard
DialAccepted(url, lines, h, stamp, logOk, launchOk) ==
    LET number == Normalize(url)
        gv_url == GvUrl(number)
        paths == get_chrome_paths(h)
        app_id == get_google_voice_app_id(h)
        tier == ChooseTier(paths.proxy_path, app_id, paths.chrome_path)
        after == AfterLaunch(tier, launchOk)
    IN  [phone |-> number,
         log |-> AppendLog(lines, stamp, number, logOk),
         found |-> [proxy_path |-> paths.proxy_path,
                    chrome_path |-> paths.chrome_path, app_id |-> app_id],
         launch |-> [tier |-> tier,
                     argv |-> LaunchArgv(tier, paths.proxy_path, app_id,
                                         paths.chrome_path, gv_url),
                     started |-> after.pc # "raised",
                     attempts |-> LaunchAttempts(tier, launchOk)],
         pc |-> after.pc,
         child |-> after.child,
         events |-> (IF logOk THEN <<"log">> ELSE <<>>)
                        \o <<"get_chrome_paths", "get_google_voice_app_id">>
                        \o [i \in 1..Len(LaunchAttempts(tier, launchOk))
                               |-> "launch"]]

NotFound == [proxy_path |-> None, chrome_path |-> None, app_id |-> None]

DialRejected(lines) ==
    [phone |-> <<>>, log |-> lines, found |-> NotFound, launch |-> NoLaunch,
     pc |-> "done", child |-> "none", events |-> <<>>]

\* A dial that gives up when the log cannot be written.
dial_LogFatal(url, lines, h, stamp, logOk, launchOk) ==
    IF ~Accepted(url) \/ ~logOk THEN DialRejected(lines)
    ELSE DialAccepted(url, lines, h, stamp, logOk, launchOk)

\* A dial without its guard.
dial_NoGuard(url, lines, h, stamp, logOk, launchOk) ==
    DialAccepted(url, lines, h, stamp, logOk, launchOk)

dial(url, lines, h, stamp, logOk, launchOk) ==
    IF ~Accepted(url) THEN DialRejected(lines)
    ELSE DialAccepted(url, lines, h, stamp, logOk, launchOk)

-----------------------------------------------------------------------------
(* The inputs of dial. *)

Alphabet == {"1", "2", "3", "B", "+", ",", "%", " "}

RECURSIVE StringsUpTo(_, _)
StringsUpTo(S, n) ==
    IF n = 0 THEN {<<>>}
    ELSE LET shorter == StringsUpTo(S, n - 1)
         IN  shorter \cup {<<c>> \o t : c \in S, t \in shorter}

SchemePrefixes ==
    { TelScheme, <<"T", "E", "L", ":">>, CalltoScheme,
      <<"C", "a", "l", "l", "T", "o", ":">>,
      <<"h", "t", "t", "p", ":">>, <<"t", "e", "l">> }

\* "tel:+1 (555) 123-4567"
ExamplePlus ==
    <<"t","e","l",":","+","1"," ","(","5","5","5",")"," ","1","2","3","-",
      "4","5","6","7">>

\* "callto:555.123.4567,1234#"
ExampleExtension ==
    <<"c","a","l","l","t","o",":","5","5","5",".","1","2","3",".",
      "4","5","6","7",",","1","2","3","4","#">>

\* "TEL:0000"
ExampleUpper == <<"T","E","L",":","0","0","0","0">>

\* "tel:1-800-555-0100"
ExampleTollFree ==
    <<"t","e","l",":","1","-","8","0","0","-","5","5","5","-","0","1","0","0">>

\* "tel:%2B1%20555"
ExampleEscaped == <<"t","e","l",":","%","2","B","1","%","2","0","5","5","5">>

\* "tel:1" and U+0663
ExampleArabic == <<"t","e","l",":","1",ArabicThree>>

\* "mailto:5"
ExampleMailto == <<"m","a","i","l","t","o",":","5">>

Examples ==
    { ExamplePlus, ExampleExtension, ExampleUpper, ExampleTollFree,
      ExampleEscaped, ExampleArabic, ExampleMailto, TelScheme }

\* Every scheme prefix followed by every text of at most MaxBody characters.
NormInputs ==
    {p \o b : p \in SchemePrefixes, b \in StringsUpTo(Alphabet, MaxBody)}
        \cup Examples

\* The inputs the dial flow is run on.
DialUrls ==
    Examples \cup { <<"t","e","l",":","+","1",",","2">>, <<"t","e","l">>,
                    <<"T","e","l",":"," ","+","1">> }

\* Lines earlier dials wrote.
OldLines == << LogLine("t1", <<"+", "1">>), LogLine("t2", <<"2">>) >>

InitLogs == {SubSeq(OldLines, 1, n) : n \in 0..Len(OldLines)}

NoOp ==
    [op |-> "none", args |-> <<>>, faulted |-> FALSE, faultAt |-> 0,
     cleanBefore |-> FALSE, repeat |-> FALSE, retry |-> FALSE,
     afterCleanRegister |-> FALSE, hadClass |-> FALSE,
     hadCapabilities |-> FALSE, hadPointer |-> FALSE]

NoHost ==
    [hkcu |-> "OSError", hklm |-> "OSError", whichProxy |-> FALSE,
     whichChrome |-> FALSE, shortcut |-> "no shortcut"]

\* No DeleteKey call has been issued.
NoDelete == [path |-> <<>>, nonEmpty |-> FALSE]

\* unregister_handler is not running step by step.
StepIdle ==
    /\ frames = <<>>
    /\ unregPc = "idle"
    /\ denied = {}
    /\ issued = NoDelete

\* No concurrent dial is appending to the log file.
LogIdle ==
    /\ file = <<>>
    /\ procs = <<>>

\* parser.parse_args() on an empty command line
NoArgs ==
    [install |-> FALSE, uninstall |-> FALSE, register |-> FALSE,
     unregister |-> FALSE, url |-> <<>>]

\* main has not been entered.
MainIdle ==
    /\ argv = NoArgs
    /\ ran = <<>>
    /\ appdir = FALSE

\* No dial has run.
DialIdle ==
    /\ phone = <<>>
    /\ found = NotFound
    /\ launch = NoLaunch
    /\ dialPc = "idle"
    /\ child = "none"
    /\ events = <<>>

Init ==
    /\ \E hasClass \in BOOLEAN, hasCap \in BOOLEAN,
          regApps \in {"absent", "others", "pointer"} :
            reg = InitStore(hasClass, hasCap, regApps)
    /\ out = "none"
    /\ lastOp = NoOp
    /\ env \in [frozen : BOOLEAN, pythonwExists : BOOLEAN]
    /\ faults = 0
    /\ DialIdle
    /\ host = NoHost
    /\ log = <<>>
    /\ phone_url = <<>>
    /\ StepIdle
    /\ LogIdle
    /\ MainIdle

\* What the bookkeeping of an operation records about the store it started
\* from and the operation before it.
Before(op, args, faulted) ==
    [op |-> op, args |-> args, faulted |-> faulted, faultAt |-> 0,
     cleanBefore |-> FullyAbsent(reg),
     repeat |-> lastOp.op = op /\ lastOp.args = args /\ ~lastOp.faulted,
     retry |-> FALSE,
     afterCleanRegister |->
         lastOp.op = "register" /\ ~lastOp.faulted /\ lastOp.cleanBefore,
     hadClass |-> HasClass(reg),
     hadCapabilities |-> HasCapabilities(reg),
     hadPointer |-> HasPointer(reg)]

Register ==
    \E exe_path \in {NoPath, TargetExe}, fault \in RegisterFaults :
        LET res == register_handler(reg, exe_path, env.frozen,
                                    env.pythonwExists, fault)
        IN  /\ fault # NoFault => faults < MaxFaults
            /\ reg' = res.reg
            /\ out' = res.out
            /\ lastOp' = Before("register", res.args, fault # NoFault)
            /\ faults' = IF fault # NoFault THEN faults + 1 ELSE faults
            /\ UNCHANGED env
            /\ UNCHANGED dialVars
            /\ UNCHANGED <<stepVars, logVars, mainVars>>

Unregister ==
    \E F \in UnregisterFaults(MaxFaults - faults) :
        LET res == unregister_handler(reg, PROG_ID, PROG_NAME, F)
        IN  /\ reg' = res.reg
            /\ out' = res.out
            /\ lastOp' = Before("unregister", <<>>, F # {})
            /\ faults' = faults + Cardinality(F)
            /\ UNCHANGED env
            /\ UNCHANGED dialVars
            /\ UNCHANGED <<stepVars, logVars, mainVars>>

Next == Register \/ Unregister

Spec == Init /\ [][Next]_vars

-----------------------------------------------------------------------------
(* The dial flow: one invocation of the process with a URL argument, on a  *)
(* machine in any state of discovery and with any earlier log.             *)

RegistryIdle ==
    /\ reg = BaseStore
    /\ out = "none"
    /\ lastOp = NoOp
    /\ env = [frozen |-> TRUE, pythonwExists |-> FALSE]
    /\ faults = 0

InitDial ==
    /\ RegistryIdle
    /\ DialIdle
    /\ host \in Hosts
    /\ log \in InitLogs
    /\ phone_url = <<>>
    /\ StepIdle
    /\ LogIdle
    /\ MainIdle

Dial ==
    /\ dialPc = "idle"
    /\ \E url \in DialUrls, logOk \in BOOLEAN, launchOk \in BOOLEAN :
          LET res == dial(url, log, host, "now", logOk, launchOk)
          IN  /\ phone_url' = url
              /\ phone' = res.phone
              /\ log' = res.log
              /\ found' = res.found
              /\ launch' = res.launch
              /\ dialPc' = res.pc
              /\ child' = res.child
              /\ events' = res.events
    /\ UNCHANGED host
    /\ UNCHANGED regVars
    /\ UNCHANGED <<stepVars, logVars, mainVars>>

\* The launched process ends, with any exit status: subprocess.run returns
\* and dial with it.
ChildExit ==
    /\ dialPc = "waiting"
    /\ child = "running"
    /\ \E status \in {0, 1} :
          /\ child' = "exited"
          /\ dialPc' = "done"
          /\ events' = Append(events, "returned")
    /\ UNCHANGED <<host, log, phone_url, phone, found, launch>>
    /\ UNCHANGED regVars
    /\ UNCHANGED <<stepVars, logVars, mainVars>>

NextDial == Dial \/ ChildExit

SpecDial == InitDial /\ [][NextDial]_vars

-----------------------------------------------------------------------------
(* The normalization alone, on every enumerated input. *)

InitNorm ==
    /\ RegistryIdle
    /\ DialIdle
    /\ host = NoHost
    /\ log = <<>>
    /\ phone_url \in NormInputs
    /\ StepIdle
    /\ LogIdle
    /\ MainIdle

NormalizeInput ==
    /\ dialPc = "idle"
    /\ phone' = Normalize(phone_url)
    /\ dialPc' = "done"
    /\ UNCHANGED <<host, log, phone_url, found, launch, child, events>>
    /\ UNCHANGED regVars
    /\ UNCHANGED <<stepVars, logVars, mainVars>>

NextNorm == NormalizeInput

SpecNorm == InitNorm /\ [][NextNorm]_vars

-----------------------------------------------------------------------------
(* Properties of the registration. *)

\* No key of this program's two trees and no pointer to it is in the store.
NoResidue(r) ==
    /\ Subtree(r, ClassesPath) = {}
    /\ Subtree(r, ProgRootPath) = {}
    /\ ~HasPointer(r)

\* C1: a Register that follows a Register with the same running path and
\* invocation prefix, both without a store error, reports success and leaves
\* every key and every value of the store as the first one left them.
C1_RegisterIdempotent ==
    [][ (lastOp'.op = "register" /\ lastOp'.repeat /\ ~lastOp'.faulted)
            => (reg' = reg /\ out' = "registered" /\ out = "registered") ]_vars

C1_Witness ==
    /\ lastOp.op = "register"
    /\ lastOp.repeat
    /\ ~lastOp.faulted
    /\ FullyPresent(reg, lastOp.args[1], lastOp.args[2])

\* C2: Register on a store with no entry of this program, followed at once
\* by Unregister, both without a store error, leaves no key of the class
\* subtree, no key of the capabilities subtree and no pointer value.
C2_RoundTrip ==
    (lastOp.op = "unregister" /\ ~lastOp.faulted /\ lastOp.afterCleanRegister)
        => (NoResidue(reg) /\ out = "unregistered")

C2_Witness ==
    /\ lastOp.op = "unregister"
    /\ ~lastOp.faulted
    /\ lastOp.afterCleanRegister
    /\ lastOp.hadClass /\ lastOp.hadCapabilities /\ lastOp.hadPointer
    /\ NoResidue(reg)

\* C3: at the end of an operation that met no store error the store is in
\* no partial state, whatever state the operation started from: after
\* Register every record of the tree is present with the values of that
\* registration, after Unregister the tree is absent.
C3_NoPartialState ==
    /\ (lastOp.op = "register" /\ ~lastOp.faulted)
          => FullyPresent(reg, lastOp.args[1], lastOp.args[2])
    /\ (lastOp.op = "unregister" /\ ~lastOp.faulted)
          => FullyAbsent(reg)

\* Register has run, without a store error, on a store that held the class
\* entry of another registration and no capabilities entry.
C3_Witness ==
    /\ lastOp.op = "register"
    /\ ~lastOp.faulted
    /\ lastOp.hadClass /\ ~lastOp.hadCapabilities
    /\ lastOp.args[1] # TargetExe
    /\ FullyPresent(reg, lastOp.args[1], lastOp.args[2])

\* C4: whichever of the class entry, the capabilities entry, the
\* RegisteredApplications key and the pointer value exist when Unregister
\* starts, a run that meets no store error passes the missing ones, reports
\* success and ends with all three records absent; on a store that holds
\* none of them it changes nothing.
C4_UnregisterConverges ==
    [][ (lastOp'.op = "unregister" /\ ~lastOp'.faulted)
            => /\ out' = "unregistered"
               /\ FullyAbsent(reg')
               /\ FullyAbsent(reg) => reg' = reg ]_vars

\* Unregister has run on a store with the capabilities entry alone.
C4_Witness ==
    /\ lastOp.op = "unregister"
    /\ ~lastOp.faulted
    /\ ~lastOp.hadClass /\ lastOp.hadCapabilities /\ ~lastOp.hadPointer
    /\ RegAppsPath \notin DOMAIN reg
    /\ out = "unregistered"

-----------------------------------------------------------------------------
(* Properties of dial. *)

\* C5: on every accepted input and for each of the eight combinations of
\* (launcher path, app id, browser path) found, dial launches the launcher
\* with the app id when both are found, else the browser with --app= when
\* its path is found, else opens the URL with the default handler.
C5_FallbackPriority ==
    (dialPc # "idle" /\ Accepted(phone_url)) =>
        LET hasApp == found.proxy_path # None /\ found.app_id # None
            hasBrowser == found.chrome_path # None
        IN  /\ hasApp =>
                /\ launch.tier = "app"
                /\ launch.argv[1] = found.proxy_path
                /\ launch.argv[2] = <<"--app-id=">> \o found.app_id
            /\ (~hasApp /\ hasBrowser) =>
                /\ launch.tier = "browser"
                /\ launch.argv = << found.chrome_path,
                                    <<"--app=">> \o GvUrl(phone) >>
            /\ (~hasApp /\ ~hasBrowser) =>
                /\ launch.tier = "default"
                /\ launch.argv = << GvUrl(phone) >>

\* The launcher, the app id and the browser are all found, and the
\* launcher is what dial launched.
C5_Witness ==
    /\ dialPc # "idle"
    /\ Accepted(phone_url)
    /\ found.proxy_path # None
    /\ found.app_id # None
    /\ found.chrome_path # None
    /\ launch.tier = "app"

\* The text before the first "," or "#".
RECURSIVE BeforeSeparator(_)
BeforeSeparator(str) ==
    IF str = <<>> \/ Head(str) \in {",", "#"} THEN <<>>
    ELSE <<Head(str)>> \o BeforeSeparator(Tail(str))

\* C6: the normalized number holds no digit that follows the first "," or
\* "#" of the number: it is the optional "+" and the digits of the text
\* before that separator.
C6_TruncatesAtSeparator ==
    (dialPc = "done" /\ Accepted(phone_url)) =>
        phone = Plus(Decoded(phone_url))
                    \o SelectSeq(BeforeSeparator(Decoded(phone_url)), IsDigit)

\* An optional single leading "+" followed only by decimal digits.
IsCanonical(number) ==
    \A i \in 1..Len(number) :
        IsDigit(number[i]) \/ (i = 1 /\ number[i] = "+")

\* The number without its leading "+".
DigitRun(number) ==
    IF number # <<>> /\ number[1] = "+" THEN Tail(number) ELSE number

\* The "+" is there exactly when the decoded text starts with one.
PlusAsDecoded(url, number) ==
    (number # <<>> /\ number[1] = "+")
        <=> (Decoded(url) # <<>> /\ Decoded(url)[1] = "+")

\* C7, as claimed: the normalized number of an accepted input is an optional
\* leading "+" and decimal digits, the "+" is there exactly when the decoded
\* text starts with one, and the digits are the digits of the input, in
\* their order.
C7_DigitsOfInput ==
    (dialPc = "done" /\ Accepted(phone_url)) =>
        /\ IsCanonical(phone)
        /\ PlusAsDecoded(phone_url, phone)
        /\ DigitRun(phone) = SelectSeq(phone_url, IsDigit)

\* C7, amended: as claimed, but the digits are those of the percent-decoded
\* text, in their order: the digits of a %XX escape are not digits of the
\* number, and a digit that an escape encodes is one.
C7_DigitsOfDecoded ==
    (dialPc = "done" /\ Accepted(phone_url)) =>
        /\ IsCanonical(phone)
        /\ PlusAsDecoded(phone_url, phone)
        /\ DigitRun(phone) = SelectSeq(Decoded(phone_url), IsDigit)

\* "tel:%2B1%20555" is normalized to "+1555".
C7_Witness ==
    /\ dialPc = "done"
    /\ phone_url = ExampleEscaped
    /\ phone = <<"+", "1", "5", "5", "5">>

\* C8: dial on an input that does not start with tel: or callto:, in any
\* case of the letters, writes no log line, runs no discovery, launches
\* nothing and returns.
C8_RejectedIsNoOp ==
    [][ (dialPc = "idle" /\ dialPc' # "idle" /\ ~Accepted(phone_url'))
            => /\ log' = log
               /\ launch' = NoLaunch
               /\ child' = "none"
               /\ events' = <<>>
               /\ dialPc' = "done" ]_vars

\* dial has run on "mailto:5".
C8_Witness ==
    /\ dialPc = "done"
    /\ phone_url = ExampleMailto
    /\ ~Accepted(phone_url)
    /\ events = <<>>

\* C9: dial never raises to its caller, whatever the log write, the
\* discovery and the launch do.
C9_DialNeverRaises == dialPc # "raised"

\* C10: dial does not wait for the process it launched: while that process
\* runs, dial has returned.
C10_FireAndForget == child = "running" => dialPc = "done"

-----------------------------------------------------------------------------
(* Registrations that fail and are tried again: Register alone, from every *)
(* start store, with the store call that failed and whether the run        *)
(* follows a failed one on record.                                         *)

\* Every start store, in a process run by the interpreter: the running
\* path is the script (with the pythonw.exe prefix) or the installed
\* executable (with none).
InitRegister ==
    /\ \E hasClass \in BOOLEAN, hasCap \in BOOLEAN,
          regApps \in {"absent", "others", "pointer"} :
            reg = InitStore(hasClass, hasCap, regApps)
    /\ out = "none"
    /\ lastOp = NoOp
    /\ env = [frozen |-> FALSE, pythonwExists |-> TRUE]
    /\ faults = 0
    /\ DialIdle
    /\ host = NoHost
    /\ log = <<>>
    /\ phone_url = <<>>
    /\ StepIdle
    /\ LogIdle
    /\ MainIdle

RegisterAt ==
    \E exe_path \in {NoPath, TargetExe}, fault \in RegisterFaults :
        LET res == register_handler(reg, exe_path, env.frozen,
                                    env.pythonwExists, fault)
        IN  /\ fault # NoFault => faults < MaxFaults
            /\ reg' = res.reg
            /\ out' = res.out
            /\ lastOp' = [Before("register", res.args, fault # NoFault)
                              EXCEPT !.faultAt = fault.at,
                                     !.retry = (lastOp.op = "register"
                                                    /\ lastOp.faulted)]
            /\ faults' = IF fault # NoFault THEN faults + 1 ELSE faults
            /\ UNCHANGED env
            /\ UNCHANGED dialVars
            /\ UNCHANGED <<stepVars, logVars, mainVars>>

NextRegister == RegisterAt

SpecRegister == InitRegister /\ [][NextRegister]_vars

-----------------------------------------------------------------------------
(* Properties of a registration that fails. *)

\* The data of a value, or nothing when the key or the value is absent.
ValueAt(r, path, name) ==
    IF path \in DOMAIN r /\ name \in DOMAIN r[path] THEN <<r[path][name]>>
    ELSE <<>>

\* C11: when a store call in one of the six write steps of Register fails,
\* the failure is reported and the success message is not printed; the keys
\* and values written by the calls before it are in the store, no later call
\* has created a key or changed a value; and a Register that follows it and
\* meets no failure reports success and leaves every record of the tree.
C11_FailedRegister ==
    [][ /\ (lastOp'.op = "register" /\ lastOp'.faulted) =>
            LET k == lastOp'.faultAt
                ops == RegisterOps(lastOp'.args[1], lastOp'.args[2])
            IN  /\ out' \in {"permission denied", "error registering"}
                /\ DOMAIN reg' =
                       DOMAIN reg
                           \cup UNION {Prefixes(ops[j].path) : j \in 1..(k - 1)}
                /\ \A j \in 1..(k - 1) :
                       ops[j].op = "set" =>
                           HasValue(reg', ops[j].path, ops[j].name, ops[j].data)
                /\ \A j \in k..Len(ops) :
                       ops[j].op = "set" =>
                           ValueAt(reg', ops[j].path, ops[j].name)
                               = ValueAt(reg, ops[j].path, ops[j].name)
        /\ (lastOp'.op = "register" /\ ~lastOp'.faulted /\ lastOp'.retry) =>
            /\ out' = "registered"
            /\ FullyPresent(reg', lastOp'.args[1], lastOp'.args[2])
      ]_vars

\* A Register failed after it wrote the class entry and before the
\* capabilities entry, and the Register after it met no failure.
C11_Witness ==
    /\ lastOp.op = "register"
    /\ ~lastOp.faulted
    /\ lastOp.retry
    /\ lastOp.hadClass /\ ~lastOp.hadCapabilities /\ ~lastOp.hadPointer
    /\ out = "registered"
    /\ FullyPresent(reg, lastOp.args[1], lastOp.args[2])

-----------------------------------------------------------------------------
(* unregister_handler one store call at a time: the call stack of          *)
(* delete_key_recursive, each frame at its OpenKey, at the EnumKey of its  *)
(* loop, or at its DeleteKey.                                              *)

\* The store calls one run may see refused: those of FaultPoints and the
\* EnumKey calls.
StepFaultPoints == FaultPoints \cup ({"enum"} \X ProgramKeys)

Frame(path, pc) == [path |-> path, pc |-> pc]

\* The frame that is running, and the frames of its callers.
Top == frames[Len(frames)]

Callers == SubSeq(frames, 1, Len(frames) - 1)

AtPc(fs, pc) == [fs EXCEPT ![Len(fs)].pc = pc]

InitUnreg ==
    /\ \E hasClass \in BOOLEAN, hasCap \in BOOLEAN,
          regApps \in {"absent", "others", "pointer"} :
            reg = InitStore(hasClass, hasCap, regApps)
    /\ out = "none"
    /\ lastOp = NoOp
    /\ env = [frozen |-> TRUE, pythonwExists |-> FALSE]
    /\ faults = 0
    /\ DialIdle
    /\ host = NoHost
    /\ log = <<>>
    /\ phone_url = <<>>
    /\ StepIdle
    /\ LogIdle
    /\ MainIdle

\* unregister_handler is entered and calls delete_key_recursive on the
\* class entry.
UnregisterStart ==
    /\ unregPc = "idle"
    /\ denied' \in SubsetsUpTo(StepFaultPoints, MaxFaults)
    /\ frames' = <<Frame(<<"Software", "Classes", PROG_ID>>, "open")>>
    /\ unregPc' = "classes"
    /\ UNCHANGED <<issued, regVars, dialVars, logVars, mainVars>>

\* winreg.OpenKey: an OSError is swallowed and the frame goes on to its
\* DeleteKey.
OpenStep ==
    /\ frames # <<>>
    /\ Top.pc = "open"
    /\ frames' = AtPc(frames, IF CanOpen(reg, Top.path, denied) THEN "enum"
                              ELSE "delete")
    /\ UNCHANGED <<unregPc, denied, issued, regVars, dialVars, logVars, mainVars>>

\* winreg.EnumKey(key, 0): the first subkey, on which delete_key_recursive
\* is called; an OSError (no subkey is left, or the call is refused) ends
\* the loop.
EnumStep ==
    /\ frames # <<>>
    /\ Top.pc = "enum"
    /\ frames' = IF \/ <<"enum", Top.path>> \in denied
                    \/ Children(reg, Top.path) = {}
                 THEN AtPc(frames, "delete")
                 ELSE Append(frames, Frame(FirstChild(reg, Top.path), "open"))
    /\ UNCHANGED <<unregPc, denied, issued, regVars, dialVars, logVars, mainVars>>

\* winreg.DeleteKey and the return of the frame.  A frame that returns
\* leaves its caller in the loop; one that raises ends the caller's loop
\* (except OSError) and the caller goes on to its own DeleteKey; an error
\* that leaves the outermost frame ends unregister_handler in its except
\* clause.
DeleteStep ==
    /\ frames # <<>>
    /\ Top.pc = "delete"
    /\ LET res == DeleteSelf(reg, Top.path, denied)
           raised == res.exc # "none"
       IN  /\ reg' = res.reg
           /\ issued' = [path |-> Top.path,
                         nonEmpty |-> Children(reg, Top.path) # {}]
           /\ frames' = IF raised /\ Callers # <<>>
                        THEN AtPc(Callers, "delete")
                        ELSE Callers
           /\ unregPc' = IF raised /\ Callers = <<>> THEN "done" ELSE unregPc
           /\ out' = IF raised /\ Callers = <<>>
                     THEN UnregisterReport(res.exc) ELSE out
    /\ UNCHANGED <<lastOp, env, faults, denied, dialVars, logVars, mainVars>>

\* The class entry is done: delete_key_recursive on the capabilities root.
CapabilitiesStart ==
    /\ frames = <<>>
    /\ unregPc = "classes"
    /\ frames' = <<Frame(<<"Software", PROG_ID>>, "open")>>
    /\ unregPc' = "caps"
    /\ UNCHANGED <<denied, issued, regVars, dialVars, logVars, mainVars>>

\* The pointer is removed and the success message printed.
PointerStep ==
    /\ frames = <<>>
    /\ unregPc = "caps"
    /\ reg' = RemovePointer(reg, PROG_NAME, denied)
    /\ out' = UnregisterReport("none")
    /\ unregPc' = "done"
    /\ UNCHANGED <<lastOp, env, faults, frames, denied, issued,
                   dialVars, logVars, mainVars>>

NextUnreg ==
    \/ UnregisterStart
    \/ OpenStep
    \/ EnumStep
    \/ DeleteStep
    \/ CapabilitiesStart
    \/ PointerStep

SpecUnreg == InitUnreg /\ [][NextUnreg]_vars

\* The process runs: a step that can be taken is taken.
SpecUnregFair == SpecUnreg /\ WF_vars(NextUnreg)

-----------------------------------------------------------------------------
(* Properties of the recursive deletion. *)

\* C12: every DeleteKey that unregister_handler issues finds its key without
\* a subkey: the delete of a container comes after the removal of all of its
\* children, also when opening, enumerating or deleting a child fails.
C12_PostOrder == ~issued.nonEmpty

\* C19: every run of unregister_handler ends with one of its reports, and a
\* call of delete_key_recursive that returns into the loop of its caller has
\* removed the subkey it was called on.
C19_Terminates ==
    /\ [][ (/\ Len(frames') < Len(frames)
            /\ frames' # <<>>
            /\ frames'[Len(frames')].pc = "enum")
               => frames[Len(frames)].path \notin DOMAIN reg' ]_vars
    /\ <>(unregPc = "done" /\ out # "none")

\* A run in which the store refused a call has ended: the loop was left
\* through the error and the refusal is reported.
C19_Witness ==
    /\ unregPc = "done"
    /\ denied # {}
    /\ issued.nonEmpty
    /\ out = "permission denied"
    /\ HasClass(reg)

-----------------------------------------------------------------------------
(* Properties of the log and the launch of dial. *)

\* The places of an event in the side effects of dial.
Places(e) == {i \in DOMAIN events : events[i] = e}

EndsWith(str, suffix) ==
    /\ Len(suffix) <= Len(str)
    /\ SubSeq(str, Len(str) - Len(suffix) + 1, Len(str)) = suffix

\* C13: for every accepted input and every result of discovery, the launch
\* dial makes (its tier, its arguments with the URL, its attempts) is the
\* one it makes on the same input and machine whether the log append
\* succeeds or fails: a failure of the append is swallowed.
C13_LogFailureSwallowed ==
    (dialPc # "idle" /\ Accepted(phone_url)) =>
        \A logOk \in BOOLEAN :
            dial(phone_url, <<>>, host, "now", logOk, launch.started).launch
                = launch

\* The log append failed, both companions and the app id were found, and
\* the launcher was started.
C13_Witness ==
    /\ dialPc # "idle"
    /\ Accepted(phone_url)
    /\ Places("log") = {}
    /\ launch.tier = "app"
    /\ launch.started
    /\ launch.argv[3] = <<"--app-launch-url-for-shortcuts-menu-item=">>
                            \o GvUrl(phone)

\* "tel:1-800-555-0100" on a machine without companion: the line written
\* and the URL opened.
TollFreeNumber == <<"1", "8", "0", "0", "5", "5", "5", "0", "1", "0", "0">>

TollFreeUrl == <<"https://voice.google.com/u/0/calls?a=nc,">> \o TollFreeNumber

\* C14: an accepted dial whose log append succeeds adds exactly one line to
\* the log, after the lines that were there, which are unchanged; the line
\* ends with the normalized number; the append comes before the launch; and
\* the last argument of the launch ends with the calling-service URL built
\* from the percent-encoded normalized number.  "tel:1-800-555-0100" with no
\* companion found logs a line ending in 18005550100 and opens
\* ...?a=nc,18005550100 with the default URL handler.
C14_LogThenLaunch ==
    [][ (/\ dialPc = "idle"
         /\ dialPc' # "idle"
         /\ Accepted(phone_url')
         /\ \E i \in DOMAIN events' : events'[i] = "log")
            => /\ Len(log') = Len(log) + 1
               /\ SubSeq(log', 1, Len(log)) = log
               /\ EndsWith(log'[Len(log')], phone' \o <<"\n">>)
               /\ \A i \in DOMAIN events', j \in DOMAIN events' :
                      (events'[i] = "log" /\ events'[j] = "launch") => i < j
               /\ launch'.argv # <<>>
               /\ EndsWith(launch'.argv[Len(launch'.argv)],
                           <<"https://voice.google.com/u/0/calls?a=nc,">>
                               \o Quote(phone'))
               /\ (phone_url' = ExampleTollFree /\ found' = NotFound) =>
                      /\ EndsWith(log'[Len(log')], TollFreeNumber \o <<"\n">>)
                      /\ launch'.tier = "default"
                      /\ launch'.argv = <<TollFreeUrl>>
      ]_vars

\* dial has run on "tel:1-800-555-0100" with an earlier log and no
\* companion: the log has its two old lines and the new one.
C14_Witness ==
    /\ dialPc = "done"
    /\ phone_url = ExampleTollFree
    /\ found = NotFound
    /\ log = OldLines \o <<LogLine("now", TollFreeNumber)>>
    /\ events = <<"log", "get_chrome_paths", "get_google_voice_app_id", "launch">>
    /\ launch.argv = <<TollFreeUrl>>

\* C15: an accepted dial makes exactly one launch attempt, of the tier that
\* discovery selected; both discovery calls come before it; and the tier is
\* the same whether that launch succeeds or fails (a failed launch tries no
\* lower tier).
C15_OneLaunch ==
    (dialPc # "idle" /\ Accepted(phone_url)) =>
        /\ launch.attempts = <<launch.tier>>
        /\ Cardinality(Places("launch")) = 1
        /\ Places("get_chrome_paths") # {}
        /\ Places("get_google_voice_app_id") # {}
        /\ \A i \in Places("get_chrome_paths") \cup Places("get_google_voice_app_id"),
              j \in Places("launch") : i < j
        /\ \A launchOk \in BOOLEAN :
               dial(phone_url, <<>>, host, "now", TRUE, launchOk).launch.tier
                   = launch.tier

\* The launcher could not be started although the browser was found too:
\* dial made the one attempt.
C15_Witness ==
    /\ dialPc = "raised"
    /\ Accepted(phone_url)
    /\ launch.tier = "app"
    /\ ~launch.started
    /\ found.chrome_path # None
    /\ launch.attempts = <<"app">>

-----------------------------------------------------------------------------
(* Properties of the discovery. *)

\* An App Paths registration that names a file that exists.
Resolves(probe) == probe \in {"chrome", "chrome and proxy"}

RegistryHit(h) == Resolves(h.hkcu) \/ Resolves(h.hklm)

\* The registration the stated order selects, and the browser it names.
ChosenProbe(h) == IF Resolves(h.hkcu) THEN h.hkcu ELSE h.hklm

ChosenChrome(h) == IF Resolves(h.hkcu) THEN UserChrome ELSE MachineChrome

OnPath(isOnPath, path) == IF isOnPath THEN path ELSE None

\* The per-user registration when it resolves, else the system-wide one.
RegistrationOrder(h, f) ==
    RegistryHit(h) => f.chrome_path = ChosenChrome(h)

\* The derived launcher path is kept when that file exists, and is not the
\* result when it does not.
DerivedLauncher(h, f) ==
    /\ (RegistryHit(h) /\ ChosenProbe(h) = "chrome and proxy")
           => f.proxy_path = ProxyCandidate(ChosenChrome(h))
    /\ (RegistryHit(h) /\ ChosenProbe(h) = "chrome")
           => f.proxy_path # ProxyCandidate(ChosenChrome(h))

\* With no registry hit each name is what the search path gives.
SearchPathAfterNoHit(h, f) ==
    ~RegistryHit(h) =>
        /\ f.proxy_path = OnPath(h.whichProxy, PathProxy)
        /\ f.chrome_path = OnPath(h.whichChrome, PathChrome)

\* Probes that all fail give "not found", and dial went on to its launch.
ProbeFailure(h, f) ==
    /\ (~RegistryHit(h) /\ ~h.whichProxy /\ ~h.whichChrome)
           => (f.proxy_path = None /\ f.chrome_path = None)
    /\ launch.attempts # <<>>

\* C17, as claimed: the search path is consulted only when there was no
\* registry hit, so after a hit neither result is a file of the search path.
C17_PathOnlyAfterNoHit ==
    (dialPc # "idle" /\ Accepted(phone_url)) =>
        /\ RegistrationOrder(host, found)
        /\ DerivedLauncher(host, found)
        /\ SearchPathAfterNoHit(host, found)
        /\ ProbeFailure(host, found)
        /\ RegistryHit(host) =>
               (found.proxy_path # PathProxy /\ found.chrome_path # PathChrome)

\* C17, amended: the search path is consulted for each of the two names
\* exactly when the registry gave no path for that name: after a hit whose
\* derived launcher file does not exist, the launcher is what the search
\* path gives, and the browser is never taken from the search path.
C17_PathPerName ==
    (dialPc # "idle" /\ Accepted(phone_url)) =>
        /\ RegistrationOrder(host, found)
        /\ DerivedLauncher(host, found)
        /\ SearchPathAfterNoHit(host, found)
        /\ ProbeFailure(host, found)
        /\ RegistryHit(host) =>
               /\ found.chrome_path # PathChrome
               /\ ChosenProbe(host) = "chrome and proxy"
                      => found.proxy_path # PathProxy
               /\ ChosenProbe(host) = "chrome"
                      => found.proxy_path = OnPath(host.whichProxy, PathProxy)

\* The per-user query failed, the system-wide registration names a browser
\* without launcher next to it, and the launcher is the one of the search
\* path.
C17_Witness ==
    /\ dialPc # "idle"
    /\ Accepted(phone_url)
    /\ host.hkcu = "OSError"
    /\ host.hklm = "chrome"
    /\ host.whichProxy /\ host.whichChrome
    /\ found.chrome_path = MachineChrome
    /\ found.proxy_path = PathProxy

-----------------------------------------------------------------------------
(* Concurrent dials: MaxDialers invocations of the process append to the   *)
(* same log file.  Each opens the file in mode "a", writes its line into   *)
(* the buffer of the file object and leaves the with block, where close    *)
(* flushes the buffer with one write call.  No lock is taken, and on       *)
(* Windows the C runtime carries out a write to a file opened for append   *)
(* as two calls, a seek to the end of the file and a write at the file     *)
(* pointer, between which another process can run.                         *)

Dialers == 1..MaxDialers

\* The numbers the concurrent dials log: of different lengths.
DialedNumbers == { <<"1">>, <<"+", "1", "2">> }

\* datetime.datetime.now() in each process
StampOf(p) == <<"now1", "now2", "now3", "now4">>[p]

\* The characters of the file that holds the lines.
RECURSIVE Flatten(_)
Flatten(lines) ==
    IF lines = <<>> THEN <<>> ELSE Head(lines) \o Flatten(Tail(lines))

\* A write of the characters at the file pointer: it overwrites what is
\* there and extends the file when it goes past the end.
WriteAt(chars, pos, bytes) ==
    LET end == IF pos + Len(bytes) > Len(chars) THEN pos + Len(bytes)
               ELSE Len(chars)
    IN  [i \in 1..end |->
            IF i > pos /\ i <= pos + Len(bytes) THEN bytes[i - pos]
            ELSE chars[i]]

InitLog ==
    /\ RegistryIdle
    /\ DialIdle
    /\ host = NoHost
    /\ log \in InitLogs
    /\ phone_url = <<>>
    /\ StepIdle
    /\ MainIdle
    /\ file = Flatten(log)
    /\ \E numbers \in [Dialers -> DialedNumbers] :
          procs = [p \in Dialers |->
                      [pc |-> "start", pos |-> 0,
                       line |-> LogLine(StampOf(p), numbers[p])]]

\* open(log_path, "a", encoding="utf-8") and log_file.write(...), which
\* fills the buffer
OpenLog(p) ==
    /\ procs[p].pc = "start"
    /\ procs' = [procs EXCEPT ![p].pc = "opened"]
    /\ UNCHANGED <<file, regVars, dialVars, stepVars, mainVars>>

\* The flush at close, first call: the file pointer moves to the end.
SeekEnd(p) ==
    /\ procs[p].pc = "opened"
    /\ procs' = [procs EXCEPT ![p].pc = "positioned", ![p].pos = Len(file)]
    /\ UNCHANGED <<file, regVars, dialVars, stepVars, mainVars>>

\* The flush at close, second call: the line is written at the file
\* pointer, and the file is closed.
WriteLine(p) ==
    /\ procs[p].pc = "positioned"
    /\ file' = WriteAt(file, procs[p].pos, procs[p].line)
    /\ procs' = [procs EXCEPT ![p].pc = "done"]
    /\ UNCHANGED <<regVars, dialVars, stepVars, mainVars>>

NextLog == \E p \in Dialers : OpenLog(p) \/ SeekEnd(p) \/ WriteLine(p)

SpecLog == InitLog /\ [][NextLog]_vars

\* C16: when all the concurrent dials have appended, the file is the lines
\* it had, unchanged, followed by one whole line of each dial, in some
\* order: no line is lost, split or overwritten.
C16_WholeLines ==
    (\A p \in Dialers : procs[p].pc = "done") =>
        \E order \in Permutations(Dialers) :
            file = Flatten(log)
                       \o Flatten([i \in Dialers |-> procs[order[i]].line])

-----------------------------------------------------------------------------
(* The frame of Register and Unregister. *)

\* A key of one of this program's two trees.
OwnKey(k) == IsPrefix(ClassesPath, k) \/ IsPrefix(ProgRootPath, k)

\* The values of a key outside the two trees are the same in both stores;
\* of the RegisteredApplications key, all values but this program's pointer.
SameValues(r1, r2, k) ==
    IF k = RegAppsPath
    THEN \A n \in (DOMAIN r1[k] \cup DOMAIN r2[k]) \ {PROG_NAME} :
             ValueAt(r1, k, n) = ValueAt(r2, k, n)
    ELSE r1[k] = r2[k]

\* C20, as claimed: a Register or an Unregister, failed or not, leaves every
\* key outside the two trees as it was (none created, none deleted, its
\* values unchanged, apart from this program's pointer value under
\* RegisteredApplications).
C20_OnlyOwnRecords ==
    [][ \A k \in DOMAIN reg \cup DOMAIN reg' :
            ~OwnKey(k) =>
                /\ k \in DOMAIN reg
                /\ k \in DOMAIN reg'
                /\ SameValues(reg, reg', k)
      ]_vars

\* C20, amended: as claimed, except that Register creates the
\* RegisteredApplications key when it does not exist; no other key outside
\* the two trees is created, none is deleted (Unregister keeps the
\* RegisteredApplications key), and other applications' pointers are
\* unchanged.
C20_OwnRecordsAndContainer ==
    [][ \A k \in DOMAIN reg \cup DOMAIN reg' :
            ~OwnKey(k) =>
                /\ k \in DOMAIN reg'
                /\ k \in DOMAIN reg => SameValues(reg, reg', k)
                /\ k \notin DOMAIN reg =>
                       /\ k = RegAppsPath
                       /\ lastOp'.op = "register"
                       /\ DOMAIN reg'[k] \subseteq {PROG_NAME}
      ]_vars

\* Unregister has removed this program's pointer; the RegisteredApplications
\* key and the pointer of the other application are there, as are the other
\* application's keys.
C20_Witness ==
    /\ lastOp.op = "unregister"
    /\ lastOp.hadPointer
    /\ RegAppsPath \in DOMAIN reg
    /\ reg[RegAppsPath] = OtherPointer
    /\ <<"Software", "Classes", OtherApp>> \in DOMAIN reg
    /\ <<"Software", OtherApp>> \in DOMAIN reg

-----------------------------------------------------------------------------
(* main: one invocation of the process.  argv is what parse_args returns:  *)
(* the four flags and the positional url (None when it is not given).      *)

MainUrls == {None, ExamplePlus, ExampleMailto}

Args ==
    [install : BOOLEAN, uninstall : BOOLEAN, register : BOOLEAN,
     unregister : BOOLEAN, url : MainUrls]

\* A main whose branches are separate if statements.
DispatchEach(a) ==
    LET flagged == (IF a.install THEN <<"install">> ELSE <<>>)
                       \o (IF a.uninstall THEN <<"uninstall">> ELSE <<>>)
                       \o (IF a.register THEN <<"register">> ELSE <<>>)
                       \o (IF a.unregister THEN <<"unregister">> ELSE <<>>)
                       \o (IF a.url # None THEN <<"dial">> ELSE <<>>)
    IN  IF flagged = <<>> THEN <<"help">> ELSE flagged

\* The operations main runs: the branch of its if / elif chain that is
\* taken.
Dispatch(a) ==
    IF a.install THEN <<"install">>
    ELSE IF a.uninstall THEN <<"uninstall">>
    ELSE IF a.register THEN <<"register">>
    ELSE IF a.unregister THEN <<"unregister">>
    ELSE IF a.url # None THEN <<"dial">>
    ELSE <<"help">>

\* The next operation of main is op.
Pending(op) ==
    /\ Len(ran) < Len(Dispatch(argv))
    /\ Dispatch(argv)[Len(ran) + 1] = op

\* A machine on which the browser is registered, without launcher.
BrowserHost ==
    [hkcu |-> "chrome", hklm |-> "OSError", whichProxy |-> FALSE,
     whichChrome |-> FALSE, shortcut |-> "no shortcut"]

InitMain ==
    /\ reg \in {InitStore(FALSE, FALSE, "others"), InitStore(TRUE, TRUE, "pointer")}
    /\ out = "none"
    /\ lastOp = NoOp
    /\ env \in [frozen : BOOLEAN, pythonwExists : {TRUE}]
    /\ faults = 0
    /\ DialIdle
    /\ host \in {NoHost, BrowserHost}
    /\ log = <<>>
    /\ phone_url = <<>>
    /\ StepIdle
    /\ LogIdle
    /\ argv \in Args
    /\ ran = <<>>
    /\ appdir \in BOOLEAN

\* install_executable: the directory is made, the executable is copied or
\* built, and when it is in place register_handler is called on it; any
\* exception is printed.
MainInstall ==
    /\ Pending("install")
    /\ \E outcome \in {"installed", "build failed", "makedirs failed"} :
          LET res == register_handler(reg, TargetExe, env.frozen,
                                      env.pythonwExists, NoFault)
          IN  IF outcome = "installed"
              THEN /\ reg' = res.reg
                   /\ out' = res.out
                   /\ lastOp' = Before("register", res.args, FALSE)
                   /\ appdir' = TRUE
              ELSE /\ out' = "error installing"
                   /\ appdir' = (appdir \/ outcome = "build failed")
                   /\ UNCHANGED <<reg, lastOp>>
    /\ ran' = Append(ran, "install")
    /\ UNCHANGED <<env, faults, argv, dialVars, stepVars, logVars>>

\* uninstall: unregister_handler, then shutil.rmtree of the directory when
\* it exists, which can raise.
MainUninstall ==
    /\ Pending("uninstall")
    /\ \E F \in UnregisterFaults(MaxFaults - faults), rmtreeOk \in BOOLEAN :
          LET res == unregister_handler(reg, PROG_ID, PROG_NAME, F)
          IN  /\ reg' = res.reg
              /\ lastOp' = Before("unregister", <<>>, F # {})
              /\ faults' = faults + Cardinality(F)
              /\ appdir' = (appdir /\ ~rmtreeOk)
              /\ out' = IF appdir /\ ~rmtreeOk THEN "raised" ELSE "uninstalled"
    /\ ran' = Append(ran, "uninstall")
    /\ UNCHANGED <<env, argv, dialVars, stepVars, logVars>>

\* register_handler()
MainRegister ==
    /\ Pending("register")
    /\ \E fault \in RegisterFaults :
          LET res == register_handler(reg, NoPath, env.frozen,
                                      env.pythonwExists, fault)
          IN  /\ fault # NoFault => faults < MaxFaults
              /\ reg' = res.reg
              /\ out' = res.out
              /\ lastOp' = Before("register", res.args, fault # NoFault)
              /\ faults' = IF fault # NoFault THEN faults + 1 ELSE faults
    /\ ran' = Append(ran, "register")
    /\ UNCHANGED <<env, argv, appdir, dialVars, stepVars, logVars>>

\* unregister_handler()
MainUnregister ==
    /\ Pending("unregister")
    /\ \E F \in UnregisterFaults(MaxFaults - faults) :
          LET res == unregister_handler(reg, PROG_ID, PROG_NAME, F)
          IN  /\ reg' = res.reg
              /\ out' = res.out
              /\ lastOp' = Before("unregister", <<>>, F # {})
              /\ faults' = faults + Cardinality(F)
    /\ ran' = Append(ran, "unregister")
    /\ UNCHANGED <<env, argv, appdir, dialVars, stepVars, logVars>>

\* dial(args.url)
MainDial ==
    /\ Pending("dial")
    /\ dialPc = "idle"
    /\ \E logOk \in BOOLEAN, launchOk \in BOOLEAN :
          LET res == dial(argv.url, log, host, "now", logOk, launchOk)
          IN  /\ phone_url' = argv.url
              /\ phone' = res.phone
              /\ log' = res.log
              /\ found' = res.found
              /\ launch' = res.launch
              /\ dialPc' = res.pc
              /\ child' = res.child
              /\ events' = res.events
    /\ ran' = Append(ran, "dial")
    /\ UNCHANGED <<host, argv, appdir, regVars, stepVars, logVars>>

\* The help text is printed, or shown in a message box by the frozen
\* executable, and the process exits.
MainHelp ==
    /\ Pending("help")
    /\ out' = "help"
    /\ ran' = Append(ran, "help")
    /\ UNCHANGED <<reg, lastOp, env, faults, argv, appdir,
                   dialVars, stepVars, logVars>>

NextMain ==
    \/ MainInstall
    \/ MainUninstall
    \/ MainRegister
    \/ MainUnregister
    \/ MainDial
    \/ MainHelp
    \/ ChildExit

SpecMain == InitMain /\ [][NextMain]_vars

\* C18: an invocation runs one operation and no second one, and it is the
\* one the precedence install, uninstall, register, unregister, URL, help
\* selects for the flags and the URL given; help is run exactly when no flag
\* and no URL is given.
C18_OneOperation ==
    /\ Len(ran) <= 1
    /\ ran # <<>> =>
          LET op == ran[1]
              noFlag == /\ ~argv.install /\ ~argv.uninstall
                        /\ ~argv.register /\ ~argv.unregister
          IN  /\ op \in {"install", "uninstall", "register", "unregister",
                         "dial", "help"}
              /\ argv.install => op = "install"
              /\ (~argv.install /\ argv.uninstall) => op = "uninstall"
              /\ (~argv.install /\ ~argv.uninstall /\ argv.register)
                     => op = "register"
              /\ (/\ ~argv.install /\ ~argv.uninstall
                  /\ ~argv.register /\ argv.unregister) => op = "unregister"
              /\ (noFlag /\ argv.url # None) => op = "dial"
              /\ op = "help" <=> (noFlag /\ argv.url = None)
              /\ op # "dial" => dialPc = "idle"
              /\ op \in {"dial", "help"} => lastOp = NoOp

\* --uninstall --register with a URL: uninstall alone has run, the store
\* holds no record and nothing was dialed.
C18_Witness ==
    /\ ~argv.install
    /\ argv.uninstall
    /\ argv.register
    /\ argv.url = ExamplePlus
    /\ ran = <<"uninstall">>
    /\ lastOp.op = "unregister"
    /\ lastOp.hadClass
    /\ FullyAbsent(reg)
    /\ dialPc = "idle"

-----------------------------------------------------------------------------
(* Properties of uninstall. *)

\* The open command of the class entry runs the executable of the per-user
\* application directory.
CommandIntoAppDir(r) ==
    /\ CommandPath \in DOMAIN r
    /\ DefaultValue \in DOMAIN r[CommandPath]
    /\ r[CommandPath][DefaultValue] = "\"" \o TargetExe \o "\" \"%1\""

\* C21: an uninstall that removes the per-user application directory leaves
\* no open command in the store that points into it: when it has completed,
\* the association records are absent or the directory is still there, also
\* when unregister_handler met a permission error.
C21_NoDanglingCommand ==
    [][ (/\ ran = <<>>
         /\ ran' = <<"uninstall">>
         /\ appdir
         /\ ~appdir')
            => (~CommandIntoAppDir(reg') /\ FullyAbsent(reg')) ]_vars

====
